---- MODULE Spec2Model ----
(***************************************************************************)
(* Model of the schema reconciliation engine of the heart-disease backend  *)
(* (backend/app/prepare.py, backend/app/schema_specs.py), of the batch     *)
(* cache (backend/app/batch_cache.py) and of the batch handlers of         *)
(* backend/app/main.py that band, threshold, cache and export the          *)
(* predictions.                                                            *)
(*                                                                         *)
(* Text (headers, cell strings) is a sequence of one-character strings, so *)
(* strip / lower / replace act on characters as the Python code does.      *)
(* A number is carried in thousandths (5.2 is 5200); the value universes   *)
(* hold numbers with at most one decimal, for which the model's arithmetic *)
(* (x 38.67, comparisons, medians) is exact.                               *)
(* The batch handlers take the classifier's probabilities for the rows of  *)
(* a request as given; probabilities and thresholds are in                 *)
(* hundred-thousandths, the clock in whole seconds.                        *)
(***************************************************************************)
EXTENDS Integers, Sequences, FiniteSets, TLC

(* ------------------------------------------------------------------ *)
(* Text: str.strip(), str.lower(), str.replace(" ", "_")               *)
(* ------------------------------------------------------------------ *)

UpperCase ==
  <<"A","B","C","D","E","F","G","H","I","J","K","L","M",
    "N","O","P","Q","R","S","T","U","V","W","X","Y","Z">>

LowerCase ==
  <<"a","b","c","d","e","f","g","h","i","j","k","l","m",
    "n","o","p","q","r","s","t","u","v","w","x","y","z">>

Whitespace == {" ", "\t"}

LowerChar(c) ==
  IF \E i \in 1..Len(UpperCase) : UpperCase[i] = c
  THEN LowerCase[CHOOSE i \in 1..Len(UpperCase) : UpperCase[i] = c]
  ELSE c

lower(s) == [i \in 1..Len(s) |-> LowerChar(s[i])]

RECURSIVE lstrip(_)
lstrip(s) ==
  IF s # <<>> /\ Head(s) \in Whitespace THEN lstrip(Tail(s)) ELSE s

RECURSIVE rstrip(_)
rstrip(s) ==
  IF s # <<>> /\ s[Len(s)] \in Whitespace
  THEN rstrip(SubSeq(s, 1, Len(s) - 1))
  ELSE s

strip(s) == rstrip(lstrip(s))

replace(s, old, new) == [i \in 1..Len(s) |-> IF s[i] = old THEN new ELSE s[i]]

(* ------------------------------------------------------------------ *)
(* schema_specs.py                                                      *)
(* ------------------------------------------------------------------ *)

age == <<"a","g","e">>
gender == <<"g","e","n","d","e","r">>
sysBP == <<"s","y","s","B","P">>
pulsePressure == <<"p","u","l","s","e","P","r","e","s","s","u","r","e">>
BMI == <<"B","M","I">>
totChol == <<"t","o","t","C","h","o","l">>
glucose == <<"g","l","u","c","o","s","e">>
heartRate == <<"h","e","a","r","t","R","a","t","e">>
cigsPerDay == <<"c","i","g","s","P","e","r","D","a","y">>
currentSmoker == <<"c","u","r","r","e","n","t","S","m","o","k","e","r">>
BPMeds == <<"B","P","M","e","d","s">>
prevalentStroke == <<"p","r","e","v","a","l","e","n","t","S","t","r","o","k","e">>
prevalentHyp == <<"p","r","e","v","a","l","e","n","t","H","y","p">>
diabetes == <<"d","i","a","b","e","t","e","s">>

CANONICAL_COLUMNS ==
  << age, gender, sysBP, pulsePressure, BMI,
     totChol, glucose, heartRate, cigsPerDay, currentSmoker,
     BPMeds, prevalentStroke, prevalentHyp, diabetes >>

SYNONYMS ==
  { << <<"s","e","x">>, gender >>,
    << <<"g","n","d","r">>, gender >>,
    << <<"b","p">>, sysBP >>,
    << <<"b","l","o","o","d","_","p","r","e","s","s","u","r","e">>, sysBP >>,
    << <<"r","e","s","t","i","n","g","_","b","p">>, sysBP >>,
    << <<"s","y","s","t","o","l","i","c","_","b","p">>, sysBP >>,
    << <<"s","b","p">>, sysBP >>,
    << <<"p","u","l","s","e","_","p","r","e","s","s","u","r","e">>, pulsePressure >>,
    << <<"p","p">>, pulsePressure >>,
    << <<"b","m","i","_","k","g","_","m","2">>, BMI >>,
    << <<"c","h","o","l">>, totChol >>,
    << <<"t","o","t","a","l","_","c","h","o","l","e","s","t","e","r","o","l">>, totChol >>,
    << <<"f","b","s">>, glucose >>,
    << <<"f","a","s","t","i","n","g","_","g","l","u","c","o","s","e">>, glucose >>,
    << <<"f","p","g">>, glucose >>,
    << <<"h","r">>, heartRate >>,
    << <<"r","e","s","t","i","n","g","_","h","r">>, heartRate >>,
    << <<"c","i","g","a","r","e","t","t","e","s","_","p","e","r","_","d","a","y">>, cigsPerDay >>,
    << <<"c","i","g","s","_","p","e","r","_","d","a","y">>, cigsPerDay >>,
    << <<"s","m","o","k","e","r">>, currentSmoker >>,
    << <<"s","m","o","k","i","n","g","_","s","t","a","t","u","s">>, currentSmoker >>,
    << <<"c","u","r","r","e","n","t","_","s","m","o","k","e","r">>, currentSmoker >>,
    << <<"b","p","m","e","d","s">>, BPMeds >>,
    << <<"b","p","_","m","e","d","s">>, BPMeds >>,
    << <<"b","l","o","o","d","_","p","r","e","s","s","u","r","e","_","m","e","d","s">>, BPMeds >>,
    << <<"s","t","r","o","k","e">>, prevalentStroke >>,
    << <<"p","r","e","v","_","s","t","r","o","k","e">>, prevalentStroke >>,
    << <<"h","y","p","e","r","t","e","n","s","i","o","n">>, prevalentHyp >>,
    << <<"h","t","n">>, prevalentHyp >>,
    << <<"d","m">>, diabetes >>,
    << <<"t","2","d">>, diabetes >>,
    << <<"t","y","p","e","2","_","d","i","a","b","e","t","e","s">>, diabetes >> }

(* RANGES in dict (insertion) order: <<column, lo, hi>>, bounds in whole units. *)
RANGES ==
  << <<age, 0, 120>>,
     <<BMI, 10, 60>>,
     <<sysBP, 70, 300>>,
     <<pulsePressure, 10, 200>>,
     <<totChol, 80, 400>>,
     <<glucose, 50, 500>>,
     <<heartRate, 30, 220>>,
     <<cigsPerDay, 0, 100>> >>

BINARY_TRUE == { <<"y","e","s">>, <<"y">>, <<"t","r","u","e">>, <<"t">>, <<"1">> }

BINARY_FALSE == { <<"n","o">>, <<"n">>, <<"f","a","l","s","e">>, <<"f">>, <<"0">> }

Male == <<"M","a","l","e">>

Female == <<"F","e","m","a","l","e">>

Yes == <<"Y","e","s">>

No == <<"N","o">>

GENDER_STR ==
  { << <<"m","a","l","e">>, Male >>,
    << <<"m">>, Male >>,
    << <<"f","e","m","a","l","e">>, Female >>,
    << <<"f">>, Female >> }

(* dict helpers over a set of <<key, value>> pairs *)
HasKey(d, k) == \E p \in d : p[1] = k

Lookup(d, k) == (CHOOSE p \in d : p[1] = k)[2]

(* ------------------------------------------------------------------ *)
(* Cells.  k is the Python type of the scalar:                          *)
(*   "nan"   a missing value (None / NaN)                               *)
(*   "int"   a Python int, n its value                                  *)
(*   "float" a float, n its value in thousandths                        *)
(*   "str"   a string, s its characters                                 *)
(* ------------------------------------------------------------------ *)

NaN == [k |-> "nan", n |-> 0, s |-> <<>>]

IntCell(i) == [k |-> "int", n |-> i, s |-> <<>>]

FloatCell(m) == [k |-> "float", n |-> m, s |-> <<>>]

StrCell(t) == [k |-> "str", n |-> 0, s |-> t]

IsNum(v) == v.k \in {"int", "float"}

(* the value of a numeric cell, in thousandths *)
Milli(v) == IF v.k = "int" THEN v.n * 1000 ELSE v.n

Digits == <<"0","1","2","3","4","5","6","7","8","9">>

IsDigit(c) == \E i \in 1..10 : Digits[i] = c

DigitVal(c) == (CHOOSE i \in 1..10 : Digits[i] = c) - 1

RECURSIVE NatToStr(_)
NatToStr(i) ==
  IF i < 10 THEN <<Digits[i + 1]>>
  ELSE NatToStr(i \div 10) \o <<Digits[(i % 10) + 1]>>

IntToStr(i) == IF i < 0 THEN <<"-">> \o NatToStr(-i) ELSE NatToStr(i)

(* repr of a float given in thousandths: 5200 -> "5.2", 1000 -> "1.0" *)
FloatToStr(m) ==
  LET a  == IF m < 0 THEN -m ELSE m
      f  == a % 1000
      d1 == <<Digits[(f \div 100) + 1]>>
      d2 == <<Digits[((f \div 10) % 10) + 1]>>
      d3 == <<Digits[(f % 10) + 1]>>
      fr == IF f % 10 # 0 THEN d1 \o d2 \o d3
            ELSE IF f % 100 # 0 THEN d1 \o d2
            ELSE d1
  IN  (IF m < 0 THEN <<"-">> ELSE <<>>) \o NatToStr(a \div 1000) \o <<".">> \o fr

(* str(v) *)
PyStr(v) ==
  CASE v.k = "str"   -> v.s
    [] v.k = "int"   -> IntToStr(v.n)
    [] v.k = "float" -> FloatToStr(v.n)
    [] OTHER         -> <<"n","a","n">>

AllDigits(t) == t # <<>> /\ \A i \in 1..Len(t) : IsDigit(t[i])

RECURSIVE StrToNat(_)
StrToNat(t) ==
  IF t = <<>> THEN 0 ELSE StrToNat(SubSeq(t, 1, Len(t) - 1)) * 10 + DigitVal(t[Len(t)])

(* the fraction digits of a decimal literal, in thousandths (truncated) *)
FracMilli(t) ==
  LET p == [i \in 1..3 |-> IF i <= Len(t) THEN DigitVal(t[i]) ELSE 0]
  IN  p[1] * 100 + p[2] * 10 + p[3]

(* to_numeric_elem with 0 in place of NaN for text that is not a number *)
to_numeric_elem_ZeroDefault(v) ==
  CASE v.k = "int"   -> v
    [] v.k = "float" -> v
    [] v.k = "nan"   -> NaN
    [] OTHER ->
        LET t   == v.s
            dot == { i \in 1..Len(t) : t[i] = "." }
        IN  IF AllDigits(t) THEN IntCell(StrToNat(t))
            ELSE IF Cardinality(dot) = 1
                 THEN LET i == CHOOSE j \in dot : TRUE
                          ip == SubSeq(t, 1, i - 1)
                          fp == SubSeq(t, i + 1, Len(t))
                      IN  IF AllDigits(ip) /\ AllDigits(fp)
                          THEN FloatCell(StrToNat(ip) * 1000 + FracMilli(fp))
                          ELSE IntCell(0)
                 ELSE IntCell(0)

(* pd.to_numeric(..., errors='coerce') on one element.  Text is read as  *)
(* an unsigned decimal literal ("12", "5.2"); anything else is NaN.      *)
to_numeric_elem(v) ==
  CASE v.k = "int"   -> v
    [] v.k = "float" -> v
    [] v.k = "nan"   -> NaN
    [] OTHER ->
        LET t   == v.s
            dot == { i \in 1..Len(t) : t[i] = "." }
        IN  IF AllDigits(t) THEN IntCell(StrToNat(t))
            ELSE IF Cardinality(dot) = 1
                 THEN LET i == CHOOSE j \in dot : TRUE
                          ip == SubSeq(t, 1, i - 1)
                          fp == SubSeq(t, i + 1, Len(t))
                      IN  IF AllDigits(ip) /\ AllDigits(fp)
                          THEN FloatCell(StrToNat(ip) * 1000 + FracMilli(fp))
                          ELSE NaN
                 ELSE NaN

(* pd.to_numeric on a column: int64 when every element is an integer,   *)
(* float64 (with NaN for what does not parse) otherwise.                 *)
to_numeric(col) ==
  LET e == [i \in 1..Len(col) |-> to_numeric_elem(col[i])]
  IN  IF \A i \in 1..Len(e) : e[i].k = "int" THEN e
      ELSE [i \in 1..Len(e) |-> IF IsNum(e[i]) THEN FloatCell(Milli(e[i])) ELSE NaN]

(* Series.dtype == object: the column holds text.  (A column of numbers *)
(* and missing values is float64; its cells coerce to themselves.)       *)
IsObjectDtype(col) == \E i \in 1..Len(col) : col[i].k = "str"

(* Twice the median of the numeric cells of a column, in thousandths     *)
(* (Series.median skips NaN; an even count averages the two middle       *)
(* values).  <<FALSE, 0>> when no cell is numeric (median is NaN).        *)
Kth(xs, kk) ==
  xs[CHOOSE i \in 1..Len(xs) :
       /\ Cardinality({ j \in 1..Len(xs) : xs[j] < xs[i] }) < kk
       /\ kk <= Cardinality({ j \in 1..Len(xs) : xs[j] <= xs[i] })]

RECURSIVE NumericMillis(_)
NumericMillis(col) ==
  IF col = <<>> THEN <<>>
  ELSE (IF IsNum(Head(col)) THEN <<Milli(Head(col))>> ELSE <<>>)
       \o NumericMillis(Tail(col))

Median2(col) ==
  LET xs  == NumericMillis(to_numeric(col))
      cnt == Len(xs)
  IN  IF cnt = 0 THEN <<FALSE, 0>>
      ELSE IF cnt % 2 = 1 THEN <<TRUE, 2 * Kth(xs, (cnt + 1) \div 2)>>
      ELSE <<TRUE, Kth(xs, cnt \div 2) + Kth(xs, cnt \div 2 + 1)>>

(* ------------------------------------------------------------------ *)
(* Data frames: the column labels in order, one cell sequence per       *)
(* column, and the number of rows of the index (RangeIndex(0..index-1)) *)
(* ------------------------------------------------------------------ *)

EmptyFrame == [columns |-> <<>>, data |-> <<>>, index |-> 0]

HasCol(d, c) == \E j \in 1..Len(d.columns) : d.columns[j] = c

ColIdx(d, c) == CHOOSE j \in 1..Len(d.columns) : d.columns[j] = c

Col(d, c) == d.data[ColIdx(d, c)]

(* d[c] = vals, vals already of the frame's length *)
PutCol(d, c, vals) ==
  IF HasCol(d, c)
  THEN [d EXCEPT !.data[ColIdx(d, c)] = vals]
  ELSE [d EXCEPT !.columns = Append(@, c), !.data = Append(@, vals)]

(* d[c] = scalar: broadcast over the frame's index *)
SetScalar(d, c, v) == PutCol(d, c, [i \in 1..d.index |-> v])

(* d[c] = series, the series indexed 0..Len(vals)-1.  A frame whose      *)
(* index is empty takes the index of a non-empty series (its existing    *)
(* columns become NaN on the new rows); otherwise the series is aligned  *)
(* on the frame's index.                                                 *)
SetSeries(d, c, vals) ==
  IF d.index = 0 /\ Len(vals) > 0
  THEN PutCol([columns |-> d.columns,
               data    |-> [j \in 1..Len(d.columns) |-> [i \in 1..Len(vals) |-> NaN]],
               index   |-> Len(vals)],
              c, vals)
  ELSE PutCol(d, c, [i \in 1..d.index |-> IF i <= Len(vals) THEN vals[i] ELSE NaN])

(* Select without the final selection: the frame as it stands *)
Select_AsIs(d, cols) == d

(* d[cols]: select columns in the given order *)
Select(d, cols) ==
  [columns |-> cols,
   data    |-> [j \in 1..Len(cols) |-> Col(d, cols[j])],
   index   |-> d.index]

(* ------------------------------------------------------------------ *)
(* prepare.py                                                           *)
(* ------------------------------------------------------------------ *)

_normalize_header(h) == replace(lower(strip(h)), " ", "_")

canon_lookup ==
  { <<_normalize_header(CANONICAL_COLUMNS[i]), CANONICAL_COLUMNS[i]>> :
      i \in 1..Len(CANONICAL_COLUMNS) }

(* list(dict.fromkeys(cols)): the distinct elements, in first-occurrence order *)
RECURSIVE FromKeys(_)
FromKeys(cols) ==
  IF cols = <<>> THEN <<>>
  ELSE LET init == SubSeq(cols, 1, Len(cols) - 1)
           last == cols[Len(cols)]
       IN  IF \E i \in 1..Len(init) : init[i] = last
           THEN FromKeys(init)
           ELSE Append(FromKeys(init), last)

(* The loop over df.columns (lines 32-43), from column j on.  st holds   *)
(* mapping (a dict as a function), extras and cols.                      *)
RECURSIVE HeaderLoop(_, _, _)
HeaderLoop(columns, j, st) ==
  IF j > Len(columns) THEN st
  ELSE LET c    == columns[j]
           norm == _normalize_header(c)
       IN  IF HasKey(canon_lookup, norm)
           THEN LET canon == Lookup(canon_lookup, norm)
                IN  HeaderLoop(columns, j + 1,
                      [st EXCEPT !.mapping = (canon :> c) @@ @,
                                 !.cols = Append(@, canon)])
           ELSE IF HasKey(SYNONYMS, norm)
           THEN LET canon == Lookup(SYNONYMS, norm)
                IN  HeaderLoop(columns, j + 1,
                      [st EXCEPT !.mapping = (canon :> c) @@ @,
                                 !.cols = Append(@, canon)])
           ELSE HeaderLoop(columns, j + 1, [st EXCEPT !.extras = Append(@, c)])

(* The rebuild loop (lines 45-48) *)
RECURSIVE Rebuild(_, _, _, _)
Rebuild(out, src, mapping, keys) ==
  IF keys = <<>> THEN out
  ELSE Rebuild(SetSeries(out, Head(keys), Col(src, mapping[Head(keys)])),
               src, mapping, Tail(keys))

_canonicalize_headers(d) ==
  LET st == HeaderLoop(d.columns, 1,
                       [mapping |-> <<>>, extras |-> <<>>, cols |-> <<>>])
  IN  [out     |-> Rebuild(EmptyFrame, d, st.mapping, FromKeys(st.cols)),
       mapping |-> st.mapping,
       extras  |-> st.extras]

(* Warnings: the literal notices, and the clamp notice with its fields   *)
(* f'Clamped {col} outside [{lo},{hi}] ({below} low, {above} high).'     *)
Notice(text) ==
  [text |-> text, col |-> <<>>, lo |-> 0, hi |-> 0, below |-> 0, above |-> 0]

DerivedAgeWarning == Notice("Derived age from dob")

DerivedBMIWarning == Notice("Derived BMI from weight_kg and height_cm")

UnitWarning == Notice("Converted totChol from mmol/L to mg/dL by x38.67 (heuristic)")

ClampWarning(col, lo, hi, below, above) ==
  [text |-> "Clamped", col |-> col, lo |-> lo, hi |-> hi,
   below |-> below, above |-> above]

dob == <<"d","o","b">>

weight_kg == <<"w","e","i","g","h","t","_","k","g">>

height_cm == <<"h","e","i","g","h","t","_","c","m">>

(* Days from 1970-01-01 to the civil date y-m-d *)
DaysFromCivil(y, m, d) ==
  LET yy  == IF m <= 2 THEN y - 1 ELSE y
      era == yy \div 400
      yoe == yy - era * 400
      mp  == IF m > 2 THEN m - 3 ELSE m + 9
      doy == (153 * mp + 2) \div 5 + d - 1
      doe == yoe * 365 + yoe \div 4 - yoe \div 100 + doy
  IN  era * 146097 + doe - 719468

(* pd.to_datetime(..., errors='coerce') on one element: <<ok, days>>.    *)
(* Text is read as an ISO date "YYYY-MM-DD"; a number is a count of      *)
(* nanoseconds from the epoch (day 0 for the small numbers used here).   *)
to_datetime_elem(v) ==
  CASE v.k = "nan" -> <<FALSE, 0>>
    [] IsNum(v)    -> <<TRUE, 0>>
    [] OTHER ->
        LET t == v.s
        IN  IF /\ Len(t) = 10
               /\ t[5] = "-" /\ t[8] = "-"
               /\ AllDigits(SubSeq(t, 1, 4))
               /\ AllDigits(SubSeq(t, 6, 7))
               /\ AllDigits(SubSeq(t, 9, 10))
               /\ StrToNat(SubSeq(t, 6, 7)) \in 1..12
               /\ StrToNat(SubSeq(t, 9, 10)) \in 1..31
            THEN <<TRUE, DaysFromCivil(StrToNat(SubSeq(t, 1, 4)),
                                       StrToNat(SubSeq(t, 6, 7)),
                                       StrToNat(SubSeq(t, 9, 10)))>>
            ELSE <<FALSE, 0>>

(* pd.Timestamp.today().normalize(), in days from the epoch *)
TodayDays == 20762

(* (today - dob).dt.days // 365 *)
AgeFromDob(col) ==
  to_numeric([i \in 1..Len(col) |->
                LET t == to_datetime_elem(col[i])
                IN  IF t[1] THEN IntCell((TodayDays - t[2]) \div 365) ELSE NaN])

(* w / (h_cm / 100) ** 2 in thousandths, from weights and heights with   *)
(* one decimal; NaN when an operand is NaN (heights here are >= 1 cm).   *)
BmiFrom(wcol, hcol) ==
  LET w == to_numeric(wcol)
      h == to_numeric(hcol)
  IN  [i \in 1..Len(w) |->
        IF IsNum(w[i]) /\ IsNum(h[i])
        THEN LET w10 == Milli(w[i]) \div 100
                 h10 == Milli(h[i]) \div 100
                 den == (h10 * h10) \div 100
             IN  IF den = 0 THEN NaN ELSE FloatCell((w10 * 1000000) \div den)
        ELSE NaN]

(* Each stage takes and returns [df, warnings]. *)
_derive_columns(st) ==
  LET s1 == IF ~HasCol(st.df, age) /\ HasCol(st.df, dob)
            THEN [df       |-> PutCol(st.df, age, AgeFromDob(Col(st.df, dob))),
                  warnings |-> Append(st.warnings, DerivedAgeWarning)]
            ELSE st
  IN  IF ~HasCol(s1.df, BMI) /\ HasCol(s1.df, weight_kg) /\ HasCol(s1.df, height_cm)
      THEN [df       |-> PutCol(s1.df, BMI,
                                BmiFrom(Col(s1.df, weight_kg), Col(s1.df, height_cm))),
            warnings |-> Append(s1.warnings, DerivedBMIWarning)]
      ELSE s1

BinaryFlags == <<currentSmoker, BPMeds, prevalentStroke, prevalentHyp, diabetes>>

(* GenderValue without strip() *)
GenderValue_NoStrip(v) ==
  LET key == lower(PyStr(v))
  IN  IF HasKey(GENDER_STR, key) THEN StrCell(Lookup(GENDER_STR, key)) ELSE v

(* lambda v: GENDER_STR.get(str(v).strip().lower(), v) *)
GenderValue(v) ==
  LET key == lower(strip(PyStr(v)))
  IN  IF HasKey(GENDER_STR, key) THEN StrCell(Lookup(GENDER_STR, key)) ELSE v

(* yn without lower() *)
yn_CaseSensitive(v) ==
  LET t == strip(PyStr(v))
  IN  IF t \in BINARY_TRUE THEN StrCell(Yes)
      ELSE IF t \in BINARY_FALSE THEN StrCell(No)
      ELSE v

yn(v) ==
  LET t == lower(strip(PyStr(v)))
  IN  IF t \in BINARY_TRUE THEN StrCell(Yes)
      ELSE IF t \in BINARY_FALSE THEN StrCell(No)
      ELSE v

(* Series.apply(yn) *)
ApplyYn(col) == [i \in 1..Len(col) |-> yn(col[i])]

(* Series.apply(lambda v: GENDER_STR.get(...)) *)
ApplyGender(col) == [i \in 1..Len(col) |-> GenderValue(col[i])]

RECURSIVE NormalizeFlags(_, _)
NormalizeFlags(d, j) ==
  IF j > Len(BinaryFlags) THEN d
  ELSE LET c == BinaryFlags[j]
       IN  NormalizeFlags(IF HasCol(d, c) THEN PutCol(d, c, ApplyYn(Col(d, c))) ELSE d,
                          j + 1)

_normalize_values(st) ==
  LET d1 == IF HasCol(st.df, gender)
            THEN PutCol(st.df, gender, ApplyGender(Col(st.df, gender)))
            ELSE st.df
  IN  [df |-> NormalizeFlags(d1, 1), warnings |-> st.warnings]

(* 38.67, as hundredths *)
MMOL_FACTOR_X100 == 3867

(* m * 38.67 for m in thousandths (exact when m has one decimal) *)
TimesFactor(m) ==
  (m \div 100) * MMOL_FACTOR_X100 + ((m % 100) * MMOL_FACTOR_X100) \div 100

(* ScaleCol that multiplies only the values that lie in [3, 15] *)
ScaleCol_InRangeOnly(col) ==
  [i \in 1..Len(col) |->
     IF ~IsNum(col[i]) THEN NaN
     ELSE IF 3000 <= Milli(col[i]) /\ Milli(col[i]) <= 15000
          THEN FloatCell(TimesFactor(Milli(col[i])))
          ELSE FloatCell(Milli(col[i]))]

ScaleCol(col) ==
  [i \in 1..Len(col) |-> IF IsNum(col[i]) THEN FloatCell(TimesFactor(Milli(col[i]))) ELSE NaN]

(* MedianInMmolRange with the bounds excluded: 3 < med < 15 *)
MedianInMmolRange_Strict(med) == med[1] /\ 2 * 3 * 1000 < med[2] /\ med[2] < 2 * 15 * 1000

(* 3 <= med <= 15, on twice the median in thousandths *)
MedianInMmolRange(med) == med[1] /\ 2 * 3 * 1000 <= med[2] /\ med[2] <= 2 * 15 * 1000

_unit_heuristics(st) ==
  IF HasCol(st.df, totChol) /\ MedianInMmolRange(Median2(Col(st.df, totChol)))
  THEN [df       |-> PutCol(st.df, totChol, ScaleCol(to_numeric(Col(st.df, totChol)))),
        warnings |-> Append(st.warnings, UnitWarning)]
  ELSE st

categorical ==
  {gender, currentSmoker, BPMeds, prevalentStroke, prevalentHyp, diabetes}

RECURSIVE CoerceLoop(_, _)
CoerceLoop(d, j) ==
  IF j > Len(d.columns) THEN d
  ELSE IF d.columns[j] \in categorical THEN CoerceLoop(d, j + 1)
  ELSE CoerceLoop([d EXCEPT !.data[j] = IF IsObjectDtype(@) THEN to_numeric(@) ELSE @],
                  j + 1)

_type_coercion(d) == CoerceLoop(d, 1)

(* InsertMissing that inserts the columns but records only the first *)
RECURSIVE InsertMissing_FirstOnly(_, _)
InsertMissing_FirstOnly(st, j) ==
  IF j > Len(CANONICAL_COLUMNS) THEN st
  ELSE LET col == CANONICAL_COLUMNS[j]
       IN  IF ~HasCol(st.df, col)
           THEN InsertMissing_FirstOnly(
                  [df |-> SetScalar(st.df, col, NaN),
                   missing_inserted |-> IF st.missing_inserted = <<>>
                                        THEN <<col>> ELSE st.missing_inserted],
                  j + 1)
           ELSE InsertMissing_FirstOnly(st, j + 1)

(* lines 150-154: st is [df, missing_inserted] *)
RECURSIVE InsertMissing(_, _)
InsertMissing(st, j) ==
  IF j > Len(CANONICAL_COLUMNS) THEN st
  ELSE LET col == CANONICAL_COLUMNS[j]
       IN  IF ~HasCol(st.df, col)
           THEN InsertMissing([df |-> SetScalar(st.df, col, NaN),
                               missing_inserted |-> Append(st.missing_inserted, col)],
                              j + 1)
           ELSE InsertMissing(st, j + 1)

Min(a, b) == IF a < b THEN a ELSE b

Max(a, b) == IF a > b THEN a ELSE b

(* ClipCell with the upper bound not applied *)
ClipCell_LowerOnly(v, lo, hi) ==
  CASE v.k = "int"   -> IntCell(Max(v.n, lo))
    [] v.k = "float" -> FloatCell(Max(v.n, lo * 1000))
    [] OTHER         -> NaN

(* Series.clip(lower=lo, upper=hi) on one element *)
ClipCell(v, lo, hi) ==
  CASE v.k = "int"   -> IntCell(Min(Max(v.n, lo), hi))
    [] v.k = "float" -> FloatCell(Min(Max(v.n, lo * 1000), hi * 1000))
    [] OTHER         -> NaN

CountBelow(s, lo) ==
  Cardinality({ i \in 1..Len(s) : IsNum(s[i]) /\ Milli(s[i]) < lo * 1000 })

(* CountAbove that also counts the values equal to hi *)
CountAbove_Inclusive(s, hi) ==
  Cardinality({ i \in 1..Len(s) : IsNum(s[i]) /\ Milli(s[i]) >= hi * 1000 })

CountAbove(s, hi) ==
  Cardinality({ i \in 1..Len(s) : IsNum(s[i]) /\ Milli(s[i]) > hi * 1000 })

RECURSIVE ClampLoop(_, _)
ClampLoop(st, j) ==
  IF j > Len(RANGES) THEN st
  ELSE LET col == RANGES[j][1]
           lo  == RANGES[j][2]
           hi  == RANGES[j][3]
       IN  IF HasCol(st.df, col)
           THEN LET s     == to_numeric(Col(st.df, col))
                    below == CountBelow(s, lo)
                    above == CountAbove(s, hi)
                    d2    == PutCol(st.df, col,
                                    [i \in 1..Len(s) |-> ClipCell(s[i], lo, hi)])
                IN  ClampLoop([df       |-> d2,
                               warnings |-> IF below # 0 \/ above # 0
                                            THEN Append(st.warnings,
                                                   ClampWarning(col, lo, hi, below, above))
                                            ELSE st.warnings],
                              j + 1)
           ELSE ClampLoop(st, j + 1)

_range_clamps(st) == ClampLoop(st, 1)

(* PASSTHROUGH_IDS with name ahead of id and patient_id *)
PASSTHROUGH_IDS_NameFirst ==
  << <<"n","a","m","e">>, <<"i","d">>, <<"p","a","t","i","e","n","t","_","i","d">> >>

PASSTHROUGH_IDS ==
  << <<"i","d">>, <<"p","a","t","i","e","n","t","_","i","d">>, <<"n","a","m","e">> >>

(* lines 160-164: st is [df, passthrough] *)
RECURSIVE PassthroughLoop(_, _, _)
PassthroughLoop(st, input, j) ==
  IF j > Len(PASSTHROUGH_IDS) THEN st
  ELSE LET p == PASSTHROUGH_IDS[j]
       IN  IF HasCol(input, p)
           THEN PassthroughLoop([df |-> SetSeries(st.df, p, Col(input, p)),
                                 passthrough |-> Append(st.passthrough, p)],
                                input, j + 1)
           ELSE PassthroughLoop(st, input, j + 1)

(* NotIn with the filter dropped *)
NotIn_KeepAll(xs, ys) == xs

(* [c for c in xs if c not in ys] *)
RECURSIVE NotIn(_, _)
NotIn(xs, ys) ==
  IF xs = <<>> THEN <<>>
  ELSE (IF \E i \in 1..Len(ys) : ys[i] = Head(xs) THEN <<>> ELSE <<Head(xs)>>)
       \o NotIn(Tail(xs), ys)

(* ------------------------------------------------------------------ *)
(* One call of prepare_for_model, stage by stage                        *)
(* ------------------------------------------------------------------ *)

VARIABLES
  pc,                \* the stage about to run
  df_input,          \* the uploaded table (argument; never assigned)
  df,                \* the working frame
  mapping_summary,   \* canonical name -> source header
  extras_dropped,    \* unmatched headers, in upload order
  missing_inserted,  \* canonical columns inserted as NaN
  warnings,          \* notices, in order
  meta,              \* the returned report (set by the last stage)
  returned,          \* the results of the calls that returned before this one
  store,             \* BatchCache._store: batch id -> (expiry, payload)
  now,               \* time.time(), in whole seconds
  puts,              \* every put so far: its time and payload; the id is its position
  req,               \* the request a batch handler is about to serve
  resp               \* the last response of a batch handler

service == <<store, now, puts, req, resp>>

vars ==
  <<pc, df_input, df, mapping_summary, extras_dropped, missing_inserted, warnings, meta,
    returned, store, now, puts, req, resp>>

NoMeta ==
  [mapping_summary |-> <<>>, extras_dropped |-> <<>>,
   missing_inserted |-> <<>>, warnings |-> <<>>]

(* the state on entry to prepare_for_model(table) *)
Call(table) ==
  /\ pc = "canonicalize"
  /\ df_input = table
  /\ df = EmptyFrame
  /\ mapping_summary = <<>>
  /\ extras_dropped = <<>>
  /\ missing_inserted = <<>>
  /\ warnings = <<>>
  /\ meta = NoMeta

Canonicalize ==
  /\ pc = "canonicalize"
  /\ LET r == _canonicalize_headers(df_input)
     IN  /\ df' = r.out
         /\ mapping_summary' = r.mapping
         /\ extras_dropped' = r.extras
  /\ pc' = "derive"
  /\ UNCHANGED <<returned, service, df_input, missing_inserted, warnings, meta>>

Derive ==
  /\ pc = "derive"
  /\ LET r == _derive_columns([df |-> df, warnings |-> warnings])
     IN  df' = r.df /\ warnings' = r.warnings
  /\ pc' = "normalize"
  /\ UNCHANGED <<returned, service, df_input, mapping_summary, extras_dropped, missing_inserted, meta>>

(* Normalize that hands over to the coercion stage, past the unit stage *)
Normalize_SkipsUnit ==
  /\ pc = "normalize"
  /\ LET r == _normalize_values([df |-> df, warnings |-> warnings])
     IN  df' = r.df /\ warnings' = r.warnings
  /\ pc' = "coerce"
  /\ UNCHANGED <<returned, service, df_input, mapping_summary, extras_dropped, missing_inserted, meta>>

Normalize ==
  /\ pc = "normalize"
  /\ LET r == _normalize_values([df |-> df, warnings |-> warnings])
     IN  df' = r.df /\ warnings' = r.warnings
  /\ pc' = "unit"
  /\ UNCHANGED <<returned, service, df_input, mapping_summary, extras_dropped, missing_inserted, meta>>

UnitHeuristics ==
  /\ pc = "unit"
  /\ LET r == _unit_heuristics([df |-> df, warnings |-> warnings])
     IN  df' = r.df /\ warnings' = r.warnings
  /\ pc' = "coerce"
  /\ UNCHANGED <<returned, service, df_input, mapping_summary, extras_dropped, missing_inserted, meta>>

TypeCoercion ==
  /\ pc = "coerce"
  /\ df' = _type_coercion(df)
  /\ pc' = "insert"
  /\ UNCHANGED <<returned, service, df_input, mapping_summary, extras_dropped, missing_inserted,
                 warnings, meta>>

EnsureColumns ==
  /\ pc = "insert"
  /\ LET r == InsertMissing([df |-> df, missing_inserted |-> <<>>], 1)
     IN  df' = r.df /\ missing_inserted' = r.missing_inserted
  /\ pc' = "clamp"
  /\ UNCHANGED <<returned, service, df_input, mapping_summary, extras_dropped, warnings, meta>>

RangeClamps ==
  /\ pc = "clamp"
  /\ LET r == _range_clamps([df |-> df, warnings |-> warnings])
     IN  df' = r.df /\ warnings' = r.warnings
  /\ pc' = "assemble"
  /\ UNCHANGED <<returned, service, df_input, mapping_summary, extras_dropped, missing_inserted, meta>>

(* lines 159-174; df becomes the returned df_ready *)
Assemble ==
  /\ pc = "assemble"
  /\ LET r == PassthroughLoop([df |-> df, passthrough |-> <<>>], df_input, 1)
     IN  /\ df' = Select(r.df, CANONICAL_COLUMNS \o r.passthrough)
         /\ meta' = [mapping_summary  |-> mapping_summary,
                     extras_dropped   |-> NotIn(extras_dropped, r.passthrough),
                     missing_inserted |-> missing_inserted,
                     warnings         |-> warnings]
  /\ pc' = "done"
  /\ UNCHANGED <<returned, service, df_input, mapping_summary, extras_dropped, missing_inserted, warnings>>

Next ==
  \/ Canonicalize
  \/ Derive
  \/ Normalize
  \/ UnitHeuristics
  \/ TypeCoercion
  \/ EnsureColumns
  \/ RangeClamps
  \/ Assemble

(* ------------------------------------------------------------------ *)
(* Calling prepare_for_model again                                      *)
(* ------------------------------------------------------------------ *)

MaxCalls == 2

(* line 132: the notices of a call start from a new empty list *)
(* the notices of the call before are kept *)
NewWarnings_Leftover == warnings

NewWarnings == <<>>

(* prepare_for_model as a function of its argument, lines 128-174 *)
prepare_for_model(table) ==
  LET c  == _canonicalize_headers(table)
      s1 == _derive_columns([df |-> c.out, warnings |-> <<>>])
      s2 == _normalize_values(s1)
      s3 == _unit_heuristics(s2)
      s4 == InsertMissing([df |-> _type_coercion(s3.df), missing_inserted |-> <<>>], 1)
      s5 == _range_clamps([df |-> s4.df, warnings |-> s3.warnings])
      s6 == PassthroughLoop([df |-> s5.df, passthrough |-> <<>>], table, 1)
  IN  [df   |-> Select(s6.df, CANONICAL_COLUMNS \o s6.passthrough),
       meta |-> [mapping_summary  |-> c.mapping,
                 extras_dropped   |-> NotIn(c.extras, s6.passthrough),
                 missing_inserted |-> s4.missing_inserted,
                 warnings         |-> s5.warnings]]

(* the caller passes the returned table to prepare_for_model again *)
Resubmit ==
  /\ pc = "done"
  /\ Len(returned) + 1 < MaxCalls
  /\ returned' = Append(returned, [df_input |-> df_input, df |-> df, meta |-> meta])
  /\ pc' = "canonicalize"
  /\ df_input' = df
  /\ df' = EmptyFrame
  /\ mapping_summary' = <<>>
  /\ extras_dropped' = <<>>
  /\ missing_inserted' = <<>>
  /\ warnings' = NewWarnings
  /\ meta' = NoMeta
  /\ UNCHANGED service

NextResubmit == Next \/ Resubmit

(* ------------------------------------------------------------------ *)
(* batch_cache.py                                                       *)
(* ------------------------------------------------------------------ *)

TTL_SECONDS == 1800

None == [k |-> "none"]

Remove(s, b) == [k \in DOMAIN s \ {b} |-> s[k]]

(* Expired that also holds at the expiry time itself *)
Expired_AtDeadline(exp, t) == exp <= t

(* lines 23 and 30: exp < time.time() *)
Expired(exp, t) == exp < t

(* _gc that drops nothing *)
_gc_KeepAll(s, t) == s

(* lines 28-32 *)
_gc(s, t) == [k \in { b \in DOMAIN s : ~Expired(s[b].exp, t) } |-> s[k]]

(* lines 11-15; batch_id is the fresh uuid4 *)
put(s, t, batch_id, payload) ==
  _gc((batch_id :> [exp |-> t + TTL_SECONDS, data |-> payload]) @@ s, t)

(* get that answers None for an expired entry but leaves it stored *)
get_NoPop(s, t, batch_id) ==
  IF batch_id \notin DOMAIN s \/ Expired(s[batch_id].exp, t)
  THEN [store |-> s, data |-> None]
  ELSE [store |-> s, data |-> s[batch_id].data]

(* lines 17-26; returns the store it leaves and the value it returns *)
get(s, t, batch_id) ==
  IF batch_id \notin DOMAIN s
  THEN [store |-> s, data |-> None]
  ELSE IF Expired(s[batch_id].exp, t)
       THEN [store |-> Remove(s, batch_id), data |-> None]
       ELSE [store |-> s, data |-> s[batch_id].data]

(* ------------------------------------------------------------------ *)
(* main.py: the batch handlers. Probabilities and thresholds are in     *)
(* hundred-thousandths; the probabilities of a request are the ones the *)
(* classifier gives for its rows.                                       *)
(* ------------------------------------------------------------------ *)

RISK_LOW_MAX == 33000

RISK_MED_MAX == 66000

DEFAULT_THRESHOLD == 30000

Absent == [given |-> FALSE, value |-> 0]

Given(v) == [given |-> TRUE, value |-> v]

(* np.round(probs, 4) and round(float(p), 4): to four decimals, ties to even *)
round4(p) ==
  LET q == p \div 10
      r == p % 10
  IN  10 * (IF r > 5 \/ (r = 5 /\ q % 2 = 1) THEN q + 1 ELSE q)

(* risk_band with the first cut point inclusive: p <= RISK_LOW_MAX is Low *)
risk_band_LowInclusive(p) ==
  IF p <= RISK_LOW_MAX THEN "Low"
  ELSE IF p < RISK_MED_MAX THEN "Medium"
  ELSE "High"

(* lines 233-238 *)
risk_band(p) ==
  IF p < RISK_LOW_MAX THEN "Low"
  ELSE IF p < RISK_MED_MAX THEN "Medium"
  ELSE "High"

(* lines 242-244: one row of the output table *)
PredictRow(p, threshold) ==
  LET probability == round4(p)
  IN  [probability |-> probability,
       risk_level  |-> risk_band(probability),
       prediction  |-> IF probability >= threshold THEN 1 ELSE 0]

(* lines 347-355: one result item *)
ResultItem(i, p, thr) ==
  [rowIndex    |-> i - 1,
   probability |-> round4(p),
   label       |-> IF p >= thr THEN "Yes" ELSE "No"]

NoRequest == [kind |-> "none", served |-> TRUE]

NoResponse == [op |-> "none"]

MaxPuts == 2

MaxTicks == 3

BatchIds == 1..(MaxPuts + 1)

(* POST /batch/predict, lines 201-273 *)
BatchPredict ==
  /\ req.kind = "upload" /\ ~req.served
  /\ LET threshold == IF req.threshold.given THEN req.threshold.value ELSE DEFAULT_THRESHOLD
         out       == [i \in 1..Len(req.probs) |-> PredictRow(req.probs[i], threshold)]
         payload   == [df |-> out, threshold |-> threshold]
         batch_id  == Len(puts) + 1
     IN  /\ store' = put(store, now, batch_id, payload)
         /\ puts' = Append(puts, [at |-> now, data |-> payload])
         /\ resp' = [op |-> "predict", status |-> 200, batch_id |-> batch_id,
                     total |-> Len(out), threshold |-> threshold, rows |-> out]
  /\ req' = [req EXCEPT !.served = TRUE]
  /\ UNCHANGED <<now, pc, df_input, df, mapping_summary, extras_dropped,
                 missing_inserted, warnings, meta, returned>>

(* POST /batch, lines 317-363 *)
BatchJson ==
  /\ req.kind = "rows" /\ ~req.served
  /\ IF req.probs = <<>>
     THEN resp' = [op |-> "json", status |-> 400]
     ELSE LET thr == IF req.threshold.given THEN req.threshold.value ELSE DEFAULT_THRESHOLD
          IN  resp' = [op |-> "json", status |-> 200, count |-> Len(req.probs),
                       results |-> [i \in 1..Len(req.probs) |->
                                      ResultItem(i, req.probs[i], thr)]]
  /\ req' = [req EXCEPT !.served = TRUE]
  /\ UNCHANGED <<store, now, puts, pc, df_input, df, mapping_summary, extras_dropped,
                 missing_inserted, warnings, meta, returned>>

(* GET /batch/export, lines 372-376; at is the time of the call *)
BatchExport ==
  /\ \E batch_id \in BatchIds :
       LET r == get(store, now, batch_id)
       IN  /\ store' = r.store
           /\ resp' = [op |-> "export", batch_id |-> batch_id, at |-> now,
                       cached |-> r.data,
                       status |-> IF r.data = None THEN 404 ELSE 200]
  /\ UNCHANGED <<now, puts, req, pc, df_input, df, mapping_summary, extras_dropped,
                 missing_inserted, warnings, meta, returned>>

(* an upload arrives *)
Upload(probs, threshold) ==
  [kind |-> "upload", served |-> FALSE, probs |-> probs, threshold |-> threshold]

Rows(probs, threshold) ==
  [kind |-> "rows", served |-> FALSE, probs |-> probs, threshold |-> threshold]

CacheUploads == { Upload(<<29996>>, Absent), Upload(<<70000>>, Given(50000)) }

Submit ==
  /\ req.served
  /\ Len(puts) < MaxPuts
  /\ req' \in CacheUploads
  /\ UNCHANGED <<store, now, puts, resp, pc, df_input, df, mapping_summary,
                 extras_dropped, missing_inserted, warnings, meta, returned>>

TickSteps == {1, TTL_SECONDS - 1}

Ticks(t) == (t \div (TTL_SECONDS - 1)) + (t % (TTL_SECONDS - 1))

(* time passes *)
Tick ==
  /\ Ticks(now) < MaxTicks
  /\ \E d \in TickSteps : now' = now + d
  /\ UNCHANGED <<store, puts, req, resp, pc, df_input, df, mapping_summary,
                 extras_dropped, missing_inserted, warnings, meta, returned>>

NextCache == Submit \/ BatchPredict \/ BatchExport \/ Tick

NextBatch == BatchPredict \/ BatchJson

(* no request in flight, nothing cached *)
ServiceIdle ==
  /\ store = <<>>
  /\ now = 0
  /\ puts = <<>>
  /\ req = NoRequest
  /\ resp = NoResponse

(* no call of prepare_for_model in progress *)
EngineIdle ==
  /\ pc = "idle"
  /\ df_input = EmptyFrame
  /\ df = EmptyFrame
  /\ mapping_summary = <<>>
  /\ extras_dropped = <<>>
  /\ missing_inserted = <<>>
  /\ warnings = <<>>
  /\ meta = NoMeta
  /\ returned = <<>>

InitCache == EngineIdle /\ ServiceIdle

SpecCache == InitCache /\ [][NextCache]_vars

MaxBatchRows == 2

ProbValues == { 0, 29994, 29996, 30000, 32996, 33000, 50004, 65996, 66000, 100000 }

ThresholdValues == { Absent, Given(0), Given(30000), Given(50000), Given(100000) }

ProbLists(lo) == UNION { [1..l -> ProbValues] : l \in lo..MaxBatchRows }

BatchRequests ==
  { Upload(x[1], x[2]) : x \in ProbLists(1) \X ThresholdValues }
    \cup { Rows(x[1], x[2]) : x \in ProbLists(0) \X ThresholdValues }

InitBatch ==
  /\ EngineIdle
  /\ store = <<>> /\ now = 0 /\ puts = <<>> /\ resp = NoResponse
  /\ req \in BatchRequests

SpecBatch == InitBatch /\ [][NextBatch]_vars

(* ------------------------------------------------------------------ *)
(* Uploaded tables                                                      *)
(* ------------------------------------------------------------------ *)

MaxCols == 3

HdrRows == 2

MaxRows == 2

Sex == <<"S","e","x">>

BloodPressureSpaced == <<"B","l","o","o","d"," ","P","r","e","s","s","u","r","e">>

BloodPressureHyphen == <<"b","l","o","o","d","-","p","r","e","s","s","u","r","e">>

notes == <<"n","o","t","e","s">>

(* headers of the header-focused uploads *)
HeaderUniverse ==
  { age, gender, totChol, Sex, BloodPressureSpaced, BloodPressureHyphen,
    PASSTHROUGH_IDS[1], PASSTHROUGH_IDS[2], PASSTHROUGH_IDS[3],
    notes, dob, weight_kg, height_cm }

DateCells == << StrCell(<<"1","9","7","0","-","0","1","-","0","1">>),
                StrCell(<<"2","0","0","0","-","0","2","-","2","9">>) >>

(* the cell of column j (header h), row r: a date under dob, otherwise   *)
(* a number that tells the source column and the row                     *)
HdrCell(h, j, r) ==
  IF h = dob THEN DateCells[((r - 1) % 2) + 1] ELSE IntCell(10 * j + r)

Distinct(q) == \A i, j \in 1..Len(q) : i # j => q[i] # q[j]

ColumnLists(U, n) ==
  UNION { { q \in [1..l -> U] : Distinct(q) } : l \in 0..n }

HdrTable(cols) ==
  [columns |-> cols,
   data    |-> [j \in 1..Len(cols) |-> [r \in 1..HdrRows |-> HdrCell(cols[j], j, r)]],
   index   |-> IF cols = <<>> THEN 0 ELSE HdrRows]

HdrTables == { HdrTable(cols) : cols \in ColumnLists(HeaderUniverse, MaxCols) }

Init == \E t \in HdrTables : Call(t) /\ returned = <<>> /\ ServiceIdle

Spec == Init /\ [][Next]_vars

(* Value-focused uploads: one column, up to MaxRows rows, every cell     *)
(* drawn from the values of the column's kind.                           *)
NumericValues ==
  { IntCell(3), IntCell(15), IntCell(1), IntCell(200), IntCell(999), IntCell(-5),
    StrCell(<<"5",".","2">>), StrCell(<<"a","b","c">>), NaN }

CategoricalValues ==
  { StrCell(<<"M">>), StrCell(<<" ","f","e","M","a","l","e","\t">>), StrCell(<<"f">>),
    StrCell(<<" ","Y"," ">>), StrCell(<<"T","R","U","E">>), StrCell(<<"0">>),
    StrCell(<<"n","o">>), StrCell(<<"x">>), IntCell(1), FloatCell(1000), NaN }

RangedColumns == { RANGES[j][1] : j \in 1..Len(RANGES) }

ValuesFor(h) == IF h \in RangedColumns THEN NumericValues ELSE CategoricalValues

ValueHeaders == RangedColumns \cup categorical \cup {Sex}

ValueTable(h, col) == [columns |-> <<h>>, data |-> <<col>>, index |-> Len(col)]

ValueTables ==
  { ValueTable(x[1], x[2]) :
      x \in UNION { { <<h, col>> : col \in UNION { [1..l -> ValuesFor(h)] : l \in 0..MaxRows } } :
                    h \in ValueHeaders } }

InitValues == \E t \in ValueTables : Call(t) /\ returned = <<>> /\ ServiceIdle

SpecValues == InitValues /\ [][Next]_vars

(* ------------------------------------------------------------------ *)
(* Properties                                                           *)
(* ------------------------------------------------------------------ *)

Range(q) == { q[i] : i \in 1..Len(q) }

Done == pc = "done"

(* the elements of q that lie in S, in q's order *)
Keep(q, S) == SelectSeq(q, LAMBDA x : x \in S)

(* the canonical column a header normalizes or synonym-maps to *)
Matches(h) ==
  HasKey(canon_lookup, _normalize_header(h)) \/ HasKey(SYNONYMS, _normalize_header(h))

CanonOf(h) ==
  IF HasKey(canon_lookup, _normalize_header(h))
  THEN Lookup(canon_lookup, _normalize_header(h))
  ELSE Lookup(SYNONYMS, _normalize_header(h))

(* the uploaded headers that map to canonical column c, in upload order *)
SourcesOf(c) ==
  SelectSeq(df_input.columns, LAMBDA h : Matches(h) /\ CanonOf(h) = c)

Mapped == { c \in Range(CANONICAL_COLUMNS) : SourcesOf(c) # <<>> }

(* Header variants: the same name up to letter case, surrounding white   *)
(* space and the separator used between words (space, tab, hyphen,       *)
(* underscore).                                                          *)
Separators == {" ", "\t", "-", "_"}

FoldHeader(h) ==
  LET t == lower(strip(h))
  IN  [i \in 1..Len(t) |-> IF t[i] \in Separators THEN "_" ELSE t[i]]

KnownHeaders == Range(CANONICAL_COLUMNS) \cup { p[1] : p \in SYNONYMS }

VariantOf(x, h) == FoldHeader(x) = FoldHeader(h)

(* a numeric value in thousandths, clamped into [lo, hi] whole units *)
Clamped(m, lo, hi) ==
  IF m < lo * 1000 THEN lo * 1000 ELSE IF m > hi * 1000 THEN hi * 1000 ELSE m

(* the uploaded column that mapping_summary names for canonical column c *)
SourceCol(c) == Col(df_input, meta.mapping_summary[c])

(* whether the code's median test 3 <= median <= 15 holds of a column *)
MmolMedian(col) ==
  LET med == Median2(col)
  IN  med[1] /\ 6000 <= med[2] /\ med[2] <= 30000

TrimLower(v) == lower(strip(PyStr(v)))

(* ------------------------------------------------------------------ *)
(* Claims                                                               *)
(* ------------------------------------------------------------------ *)

(* C1: the returned table's columns are exactly the 14 canonical columns *)
(* in canonical order, followed by the passthrough identifiers present   *)
(* in the upload (in the order id, patient_id, name) and nothing else.   *)
C1_ColumnsCanonical ==
  Done =>
    /\ Len(df.columns) >= 14
    /\ SubSeq(df.columns, 1, 14) =
         << age, gender, sysBP, pulsePressure, BMI, totChol, glucose, heartRate,
            cigsPerDay, currentSmoker, BPMeds, prevalentStroke, prevalentHyp, diabetes >>
    /\ SubSeq(df.columns, 15, Len(df.columns)) =
         Keep(PASSTHROUGH_IDS, Range(df_input.columns))
    /\ Len(df.data) = Len(df.columns)
    /\ \A j \in 1..Len(df.data) : Len(df.data[j]) = df.index

C1_Witness ==
  /\ Done
  /\ Mapped = {}
  /\ notes \in Range(df_input.columns)
  /\ PASSTHROUGH_IDS[3] \in Range(df_input.columns)
  /\ Len(df.columns) = 15

(* C2: in the returned table every non-missing value of a ranged numeric *)
(* column lies in [lo, hi]; a mapped column keeps all its rows, and a    *)
(* value outside the range sits at the same row as the bound it crossed. *)
C2_ClampBounded ==
  Done =>
    \A j \in 1..Len(RANGES) :
      LET c   == RANGES[j][1]
          lo  == RANGES[j][2]
          hi  == RANGES[j][3]
          out == Col(df, c)
      IN  /\ \A i \in 1..Len(out) :
               \/ out[i] = NaN
               \/ IsNum(out[i]) /\ lo * 1000 <= Milli(out[i]) /\ Milli(out[i]) <= hi * 1000
          /\ c \in DOMAIN meta.mapping_summary =>
               /\ Len(out) = df_input.index
               /\ c # totChol =>
                    \A i \in 1..Len(out) :
                      LET v == to_numeric_elem(SourceCol(c)[i])
                      IN  IF IsNum(v)
                          THEN IsNum(out[i]) /\ Milli(out[i]) = Clamped(Milli(v), lo, hi)
                          ELSE out[i] = NaN

C2_Witness ==
  /\ Done
  /\ df_input.columns = <<sysBP>>
  /\ df_input.data[1] = <<IntCell(999), IntCell(-5)>>
  /\ Col(df, sysBP) = <<IntCell(300), IntCell(70)>>

(* C3: every casing, surrounding-whitespace and spacing/separator variant *)
(* of a canonical name or synonym key is mapped to the same canonical     *)
(* column as the name itself and is never reported in extras_dropped.     *)
C3_VariantsMapped ==
  Done =>
    \A x \in Range(df_input.columns) : \A h \in KnownHeaders :
      VariantOf(x, h) =>
        /\ x \notin Range(meta.extras_dropped)
        /\ CanonOf(h) \in DOMAIN meta.mapping_summary

(* C4: when several uploaded columns map to the same canonical name, the *)
(* canonical column takes its values from the first-seen of them and     *)
(* mapping_summary names that first-seen header.                         *)
C4_FirstSeenWins ==
  /\ pc = "derive" =>
       \A c \in Mapped : Col(df, c) = Col(df_input, SourcesOf(c)[1])
  /\ Done =>
       \A c \in Mapped : meta.mapping_summary[c] = SourcesOf(c)[1]

(* C5: with no age column but a dob column, age is derived as             *)
(* floor(days since dob / 365), 'Derived age from dob' is in the warnings *)
(* and age is not in missing_inserted; likewise BMI from weight_kg and    *)
(* height_cm.                                                             *)
C5_Derivations ==
  Done =>
    /\ (age \notin Mapped /\ dob \in Range(df_input.columns)) =>
         /\ DerivedAgeWarning \in Range(meta.warnings)
         /\ age \notin Range(meta.missing_inserted)
         /\ Col(df, age) = AgeFromDob(Col(df_input, dob))
    /\ (BMI \notin Mapped /\ {weight_kg, height_cm} \subseteq Range(df_input.columns)) =>
         /\ DerivedBMIWarning \in Range(meta.warnings)
         /\ BMI \notin Range(meta.missing_inserted)
         /\ \A i \in 1..df.index : IsNum(Col(df, BMI)[i])

(* C6 as stated: with the median in [3, 15] every totChol value of the   *)
(* returned table is the input value x 38.67 and the mmol/L notice is in *)
(* the warnings; otherwise no value is multiplied and no notice added.   *)
C6_ConvertedExactly ==
  (Done /\ totChol \in DOMAIN meta.mapping_summary) =>
    LET in  == to_numeric(SourceCol(totChol))
        out == Col(df, totChol)
    IN  IF MmolMedian(SourceCol(totChol))
        THEN /\ UnitWarning \in Range(meta.warnings)
             /\ \A i \in 1..Len(in) :
                  IsNum(in[i]) =>
                    IsNum(out[i]) /\ Milli(out[i]) = TimesFactor(Milli(in[i]))
        ELSE /\ UnitWarning \notin Range(meta.warnings)
             /\ \A i \in 1..Len(in) :
                  (IsNum(in[i]) /\ Milli(in[i]) # 0) =>
                    ~(IsNum(out[i]) /\ Milli(out[i]) = TimesFactor(Milli(in[i])))

(* C6 (amended): with the median in [3, 15] every numeric totChol value  *)
(* of the returned table is the input value x 38.67 clamped into         *)
(* [80, 400] and the mmol/L notice is in the warnings; otherwise the     *)
(* value is the input value clamped into [80, 400], unmultiplied, and no *)
(* notice is added.  A value that is not a number is missing.            *)
C6_ConvertedThenClamped ==
  (Done /\ totChol \in DOMAIN meta.mapping_summary) =>
    LET in  == to_numeric(SourceCol(totChol))
        out == Col(df, totChol)
        mm  == MmolMedian(SourceCol(totChol))
    IN  /\ UnitWarning \in Range(meta.warnings) <=> mm
        /\ Len(out) = Len(in)
        /\ \A i \in 1..Len(in) :
             IF IsNum(in[i])
             THEN /\ IsNum(out[i])
                  /\ Milli(out[i]) =
                       Clamped(IF mm THEN TimesFactor(Milli(in[i])) ELSE Milli(in[i]), 80, 400)
             ELSE out[i] = NaN

C6_Witness ==
  /\ Done
  /\ df_input.columns = <<totChol>>
  /\ df_input.data[1] = <<StrCell(<<"5",".","2">>), IntCell(15)>>
  /\ Col(df, totChol) = <<FloatCell(201084), FloatCell(400000)>>
  /\ UnitWarning \in Range(meta.warnings)

(* C7: in the column mapped to gender a value whose trimmed, lower-cased *)
(* text is male/m becomes "Male", female/f becomes "Female", and every   *)
(* other value, a missing one included, is unchanged in the output.      *)
C7_GenderNormalized ==
  (Done /\ gender \in DOMAIN meta.mapping_summary) =>
    LET in  == SourceCol(gender)
        out == Col(df, gender)
    IN  /\ Len(out) = Len(in)
        /\ \A i \in 1..Len(in) :
             out[i] =
               IF TrimLower(in[i]) \in { <<"m","a","l","e">>, <<"m">> }
               THEN StrCell(<<"M","a","l","e">>)
               ELSE IF TrimLower(in[i]) \in { <<"f","e","m","a","l","e">>, <<"f">> }
               THEN StrCell(<<"F","e","m","a","l","e">>)
               ELSE in[i]

C7_Witness ==
  /\ Done
  /\ df_input.columns = <<Sex>>
  /\ df_input.data[1] = <<StrCell(<<"M">>), NaN>>
  /\ Col(df, gender) = <<StrCell(Male), NaN>>

(* C8: in each of the five binary flag columns a value whose trimmed,     *)
(* case-folded text is in {yes,y,true,t,1} becomes "Yes", one in          *)
(* {no,n,false,f,0} becomes "No", every other value is unchanged; the two *)
(* token sets are disjoint.                                               *)
C8_FlagsNormalized ==
  /\ BINARY_TRUE \cap BINARY_FALSE = {}
  /\ Done =>
       \A c \in {currentSmoker, BPMeds, prevalentStroke, prevalentHyp, diabetes} :
         c \in DOMAIN meta.mapping_summary =>
           LET in  == SourceCol(c)
               out == Col(df, c)
           IN  /\ Len(out) = Len(in)
               /\ \A i \in 1..Len(in) :
                    out[i] =
                      IF TrimLower(in[i]) \in
                           { <<"y","e","s">>, <<"y">>, <<"t","r","u","e">>, <<"t">>, <<"1">> }
                      THEN StrCell(<<"Y","e","s">>)
                      ELSE IF TrimLower(in[i]) \in
                           { <<"n","o">>, <<"n">>, <<"f","a","l","s","e">>, <<"f">>, <<"0">> }
                      THEN StrCell(<<"N","o">>)
                      ELSE in[i]

C8_Witness ==
  /\ Done
  /\ df_input.columns = <<diabetes>>
  /\ df_input.data[1] = <<StrCell(<<" ","Y"," ">>), FloatCell(1000)>>
  /\ Col(df, diabetes) = <<StrCell(Yes), FloatCell(1000)>>

(* C9: extras_dropped is exactly the uploaded columns that match neither *)
(* a canonical name nor a synonym and are not passthrough identifiers;   *)
(* none of them is a column of the output, and no mapped column is in it *)
C9_ExtrasDropped ==
  Done =>
    /\ meta.extras_dropped =
         SelectSeq(df_input.columns,
                   LAMBDA h : ~Matches(h) /\ h \notin Range(PASSTHROUGH_IDS))
    /\ Range(meta.extras_dropped) \cap Range(df.columns) = {}
    /\ \A h \in Range(df_input.columns) :
         Matches(h) => h \notin Range(meta.extras_dropped)

C9_Witness ==
  /\ Done
  /\ notes \in Range(meta.extras_dropped)
  /\ PASSTHROUGH_IDS[1] \in Range(df_input.columns)
  /\ Mapped # {}

(* C10: missing_inserted lists, in canonical order, exactly the canonical *)
(* columns neither mapped from a header nor derived; each of them is null *)
(* in every output row.                                                   *)
C10_MissingInserted ==
  Done =>
    LET derived == (IF DerivedAgeWarning \in Range(meta.warnings) THEN {age} ELSE {})
                   \cup (IF DerivedBMIWarning \in Range(meta.warnings) THEN {BMI} ELSE {})
        absent  == Range(CANONICAL_COLUMNS) \ (DOMAIN meta.mapping_summary \cup derived)
    IN  /\ meta.missing_inserted = Keep(CANONICAL_COLUMNS, absent)
        /\ \A c \in absent : \A i \in 1..df.index : Col(df, c)[i] = NaN

C10_Witness ==
  /\ Done
  /\ df.index > 0
  /\ Len(meta.missing_inserted) = 12
  /\ DOMAIN meta.mapping_summary = {age, gender}

(* ------------------------------------------------------------------ *)
(* Already-canonical uploads and repeated calls                         *)
(* ------------------------------------------------------------------ *)

CanonRows == 1

(* an in-range, normalized value of a canonical column *)
Typical(c) ==
  IF c = gender THEN StrCell(Male)
  ELSE IF c \in categorical THEN StrCell(No)
  ELSE IF c = BMI THEN FloatCell(25500)
  ELSE IF c = cigsPerDay THEN IntCell(0)
  ELSE IF c = totChol THEN FloatCell(200000)
  ELSE IF c = sysBP THEN IntCell(120)
  ELSE IntCell(70)

(* the values tried in the columns that vary *)
CanonicalValues(c) ==
  IF c = age THEN { IntCell(50), IntCell(999) }
  ELSE IF c = totChol THEN { FloatCell(200000), FloatCell(3000), NaN }
  ELSE IF c = gender THEN { StrCell(Male), StrCell(Female) }
  ELSE IF c = diabetes THEN { StrCell(Yes), StrCell(No) }
  ELSE { Typical(c) }

VaryingColumns == <<age, totChol, gender, diabetes>>

CanonicalTable(x) ==
  [columns |-> CANONICAL_COLUMNS,
   data    |-> [j \in 1..Len(CANONICAL_COLUMNS) |->
                  LET c == CANONICAL_COLUMNS[j]
                  IN  IF \E k \in 1..Len(VaryingColumns) : VaryingColumns[k] = c
                      THEN x[CHOOSE k \in 1..Len(VaryingColumns) : VaryingColumns[k] = c]
                      ELSE [r \in 1..CanonRows |-> Typical(c)]],
   index   |-> CanonRows]

CanonicalTables ==
  { CanonicalTable(x) :
      x \in { y \in [1..Len(VaryingColumns) ->
                       UNION { [1..CanonRows -> CanonicalValues(VaryingColumns[k])] :
                               k \in 1..Len(VaryingColumns) }] :
              \A k \in 1..Len(VaryingColumns) :
                y[k] \in [1..CanonRows -> CanonicalValues(VaryingColumns[k])] } }

(* the one-column uploads of a single cell *)
SingleCellTables ==
  { ValueTable(x[1], <<x[2]>>) :
      x \in UNION { { <<h, v>> : v \in ValuesFor(h) } : h \in ValueHeaders } }

InitResubmit ==
  \E t \in SingleCellTables \cup CanonicalTables :
    Call(t) /\ returned = <<>> /\ ServiceIdle

SpecResubmit == InitResubmit /\ [][NextResubmit]_vars

(* the columns are exactly the canonical columns and no value is one the  *)
(* normalization would rewrite                                            *)
AlreadyCanonical(t) ==
  /\ t.columns = CANONICAL_COLUMNS
  /\ \A j \in 1..Len(t.columns) : \A r \in 1..t.index :
       LET c == t.columns[j]
           v == t.data[j][r]
       IN  IF c \in RangedColumns THEN IsNum(v) \/ v = NaN
           ELSE IF c = gender THEN GenderValue(v) = v
           ELSE yn(v) = v

(* the value of a ranged column after clamping, its type kept *)
ClampedCell(v, c) ==
  LET rg == CHOOSE j \in 1..Len(RANGES) : RANGES[j][1] = c
      m  == Clamped(Milli(v), RANGES[rg][2], RANGES[rg][3])
  IN  IF ~IsNum(v) THEN v
      ELSE IF m = Milli(v) THEN v
      ELSE IF v.k = "int" THEN IntCell(m \div 1000) ELSE FloatCell(m)

SameOrClamped(t, out, scaled) ==
  /\ out.columns = t.columns
  /\ out.index = t.index
  /\ \A j \in 1..Len(t.columns) : \A r \in 1..t.index :
       LET c == t.columns[j]
           v == t.data[j][r]
       IN  IF c \notin RangedColumns THEN out.data[j][r] = v
           ELSE IF c = totChol /\ scaled /\ IsNum(v)
                THEN out.data[j][r] = ClampedCell(FloatCell(TimesFactor(Milli(v))), c)
                ELSE out.data[j][r] = ClampedCell(v, c)

(* C11 as stated: an already-canonical table comes back the same (its     *)
(* out-of-range values clamped) with empty extras_dropped, empty          *)
(* missing_inserted and no unit-conversion warning; and the output of a   *)
(* call passed to prepare_for_model again comes back identical.           *)
C11_Idempotent ==
  Done =>
    /\ AlreadyCanonical(df_input) =>
         /\ meta.extras_dropped = <<>>
         /\ meta.missing_inserted = <<>>
         /\ UnitWarning \notin Range(meta.warnings)
         /\ SameOrClamped(df_input, df, FALSE)
    /\ returned # <<>> => df = df_input

(* C11 (amended): an already-canonical table comes back with empty        *)
(* extras_dropped and missing_inserted and with the same values, except   *)
(* that a totChol column whose median lies in [3, 15] is multiplied by    *)
(* 38.67 with the unit-conversion warning and that out-of-range values    *)
(* are clamped with their clamp warnings; in-range input comes back       *)
(* identical with no warning, and so does the output of a call passed to  *)
(* prepare_for_model again.                                               *)
C11_IdempotentUnlessMmol ==
  Done =>
    /\ AlreadyCanonical(df_input) =>
         LET mm == MmolMedian(Col(df_input, totChol))
         IN  /\ meta.extras_dropped = <<>>
             /\ meta.missing_inserted = <<>>
             /\ UnitWarning \in Range(meta.warnings) <=> mm
             /\ SameOrClamped(df_input, df, mm)
             /\ SameOrClamped(df_input, df_input, FALSE) =>
                  df = df_input /\ meta.warnings = <<>>
    /\ returned # <<>> =>
         /\ df = df_input
         /\ meta.warnings = <<>>
         /\ meta.extras_dropped = <<>>
         /\ meta.missing_inserted = <<>>

(* the first call clamped and normalized; the second returned its input *)
C11_Witness ==
  /\ Done
  /\ Len(returned) = 1
  /\ returned[1].df_input # returned[1].df
  /\ returned[1].meta.warnings # <<>>
  /\ AlreadyCanonical(df_input)
  /\ df = df_input

(* C12: a call on a structurally invalid table (one with zero columns)   *)
(* returns no result: it ends in a MalformedInputError instead of        *)
(* reaching the return of prepare_for_model.                             *)
C12_MalformedRejected ==
  df_input.columns = <<>> => ~Done

(* text that holds no digit, so that no number can be read from it *)
NotANumber(v) == v.k = "str" /\ \A i \in 1..Len(v.s) : ~IsDigit(v.s[i])

(* the stages of a call; each runs as soon as pc names it *)
Stages ==
  { "canonicalize", "derive", "normalize", "unit", "coerce", "insert", "clamp", "assemble" }

(* C13: whatever the cells hold, a call of prepare_for_model that has not *)
(* returned is at a stage that runs next (no stage ends the call with an  *)
(* error); in a numeric canonical column a value that is not a number is  *)
(* missing (NaN) in the output, never 0 or another default; in a          *)
(* categorical column a token that is none of the recognized ones is in   *)
(* the output unchanged.                                                  *)
C13_CoerceNeverRaises ==
  /\ ~Done => pc \in Stages
  /\ Done =>
       \A c \in DOMAIN meta.mapping_summary :
         LET in  == SourceCol(c)
             out == Col(df, c)
         IN  /\ Len(out) = Len(in)
             /\ \A i \in 1..Len(in) :
                  /\ (c \in RangedColumns /\ NotANumber(in[i])) => out[i] = NaN
                  /\ (c = gender /\ in[i].k = "str"
                        /\ TrimLower(in[i]) \notin
                             { <<"m","a","l","e">>, <<"m">>, <<"f","e","m","a","l","e">>, <<"f">> })
                       => out[i] = in[i]
                  /\ (c \in categorical \ {gender} /\ in[i].k = "str"
                        /\ TrimLower(in[i]) \notin
                             { <<"y","e","s">>, <<"y">>, <<"t","r","u","e">>, <<"t">>, <<"1">>,
                               <<"n","o">>, <<"n">>, <<"f","a","l","s","e">>, <<"f">>, <<"0">> })
                       => out[i] = in[i]

C13_Witness ==
  /\ Done
  /\ df_input.columns = <<age>>
  /\ df_input.data[1] = <<StrCell(<<"a","b","c">>), IntCell(15)>>
  /\ Col(df, age) = <<NaN, FloatCell(15000)>>

C15_ClampWarnings ==
  Done =>
    \A j \in 1..Len(RANGES) :
      LET c   == RANGES[j][1]
          lo  == RANGES[j][2]
          hi  == RANGES[j][3]
          ws  == SelectSeq(meta.warnings, LAMBDA w : w.text = "Clamped" /\ w.col = c)
          in  == IF c \in DOMAIN meta.mapping_summary
                 THEN to_numeric(SourceCol(c)) ELSE <<>>
          mm  == c = totChol /\ c \in DOMAIN meta.mapping_summary
                   /\ MmolMedian(SourceCol(c))
          val == [i \in 1..Len(in) |->
                    IF mm THEN TimesFactor(Milli(in[i])) ELSE Milli(in[i])]
          low  == Cardinality({ i \in 1..Len(in) : IsNum(in[i]) /\ val[i] < lo * 1000 })
          high == Cardinality({ i \in 1..Len(in) : IsNum(in[i]) /\ val[i] > hi * 1000 })
      IN  IF low + high > 0
          THEN ws = << [text |-> "Clamped", col |-> c, lo |-> lo, hi |-> hi,
                        below |-> low, above |-> high] >>
          ELSE ws = <<>>

(* age [999, -5] comes back as [120, 0] with 'Clamped age outside [0,120] *)
(* (1 low, 1 high).'                                                      *)
C15_Witness ==
  /\ Done
  /\ df_input.columns = <<age>>
  /\ df_input.data[1] = <<IntCell(999), IntCell(-5)>>
  /\ Col(df, age) = <<IntCell(120), IntCell(0)>>
  /\ meta.warnings = <<ClampWarning(age, 0, 120, 1, 1)>>

BandRank(b) == CASE b = "Low" -> 1 [] b = "Medium" -> 2 [] b = "High" -> 3 [] OTHER -> 0

(* C16: in the response of /batch/predict every row has exactly one risk  *)
(* band, taken from its probability p (the value in the probability       *)
(* column): Low iff p < 0.33, Medium iff 0.33 <= p < 0.66, High iff       *)
(* p >= 0.66; a row with a higher probability never has a lower band.     *)
C16_RiskBands ==
  resp.op = "predict" =>
    /\ \A i \in 1..Len(resp.rows) :
         LET p == resp.rows[i].probability
             b == resp.rows[i].risk_level
         IN  /\ b \in {"Low", "Medium", "High"}
             /\ b = "Low" <=> p < 33000
             /\ b = "Medium" <=> (33000 <= p /\ p < 66000)
             /\ b = "High" <=> p >= 66000
    /\ \A i, k \in 1..Len(resp.rows) :
         resp.rows[i].probability <= resp.rows[k].probability
           => BandRank(resp.rows[i].risk_level) <= BandRank(resp.rows[k].risk_level)

(* a row at exactly 0.33 is Medium, next to a Low row and a High row at 0.66 *)
C16_Witness ==
  /\ resp.op = "predict"
  /\ Len(resp.rows) = 2
  /\ resp.rows[1].probability = 33000 /\ resp.rows[1].risk_level = "Medium"
  /\ resp.rows[2].probability = 66000 /\ resp.rows[2].risk_level = "High"

(* C17: in both batch endpoints a row is predicted positive (prediction 1 *)
(* in /batch/predict, label "Yes" in /batch) exactly when the probability *)
(* the classifier gave it is at or above the caller's threshold, 0.30     *)
(* when the caller gave none; /batch/predict echoes the threshold it      *)
(* applied.                                                               *)
C17_ThresholdInclusive ==
  LET thr == IF req.threshold.given THEN req.threshold.value ELSE 30000
  IN  /\ resp.op = "predict" =>
           /\ resp.threshold = thr
           /\ \A i \in 1..Len(resp.rows) :
                resp.rows[i].prediction = 1 <=> req.probs[i] >= thr
      /\ (resp.op = "json" /\ resp.status = 200) =>
           \A i \in 1..Len(resp.results) :
             resp.results[i].label = "Yes" <=> req.probs[i] >= thr

(* the step is a put that issued the id b *)
PutStep(b) == Len(puts') = Len(puts) + 1 /\ b = Len(puts')

(* C18: a payload put at time t under id b is what every get(b) at a time *)
(* no later than t + 1800 returns, and it stays stored until then         *)
(* whatever puts and gets of other ids happen in between; the id a put    *)
(* returns is none of the ids stored when it is called.                   *)
C18_ServedUntilExpiry ==
  [][ /\ \A b \in 1..Len(puts') :
           now' <= puts'[b].at + 1800 =>
             b \in DOMAIN store' /\ store'[b].data = puts'[b].data
      /\ BatchExport =>
           LET b == resp'.batch_id
           IN  (b <= Len(puts) /\ now <= puts[b].at + 1800) =>
                 resp'.cached = puts[b].data /\ resp'.status = 200
      /\ \A b \in BatchIds :
           PutStep(b) => b \notin DOMAIN store /\ resp'.batch_id = b
    ]_vars

(* the first payload is exported at exactly put time + 1800, after a      *)
(* second put and an export of the second id                              *)
C18_Witness ==
  /\ resp.op = "export"
  /\ resp.batch_id = 1
  /\ Len(puts) = 2
  /\ puts[2].at < resp.at
  /\ resp.at = puts[1].at + 1800
  /\ resp.status = 200
  /\ resp.cached = puts[1].data
  /\ puts[1].data # puts[2].data

(* C19: a get at a time later than the entry's expiry (put time + 1800)   *)
(* returns None and leaves the entry removed; an entry once removed is    *)
(* never stored again, so every later get returns None too; /batch/export *)
(* answers 404 for such an id and for an id that was never issued.        *)
C19_ExpiredNeverServed ==
  [][ /\ BatchExport =>
           LET b == resp'.batch_id
           IN  (b > Len(puts) \/ now > puts[b].at + 1800) =>
                 /\ resp'.cached = None
                 /\ resp'.status = 404
                 /\ b \notin DOMAIN store'
      /\ \A b \in 1..Len(puts) : b \notin DOMAIN store => b \notin DOMAIN store'
      /\ now' >= now
    ]_vars

(* an export one second after the expiry answered 404 and the entry is gone *)
C19_Witness ==
  /\ resp.op = "export"
  /\ resp.batch_id <= Len(puts)
  /\ resp.at = puts[resp.batch_id].at + 1801
  /\ resp.status = 404
  /\ resp.cached = None
  /\ resp.batch_id \notin DOMAIN store

(* C20: the unit-heuristic step either multiplies every numeric value of  *)
(* the totChol column by 38.67 or leaves the column as it is, never a     *)
(* part of it; and it changes no other column, nor the columns or rows    *)
(* of the frame.                                                          *)
C20_UnitAllOrNothing ==
  [][ pc = "unit" =>
        /\ df'.columns = df.columns
        /\ df'.index = df.index
        /\ \A j \in 1..Len(df.columns) :
             df.columns[j] # totChol => df'.data[j] = df.data[j]
        /\ HasCol(df, totChol) =>
             LET old == Col(df, totChol)
                 new == Col(df', totChol)
                 num == to_numeric(old)
             IN  \/ new = old
                 \/ /\ Len(new) = Len(old)
                    /\ \A i \in 1..Len(old) :
                         IF IsNum(num[i])
                         THEN IsNum(new[i]) /\ Milli(new[i]) = TimesFactor(Milli(num[i]))
                         ELSE new[i] = NaN
    ]_vars

(* median 8: both 1 and 15 are multiplied, though 1 is no mmol/L value *)
C20_Witness ==
  /\ pc = "coerce"
  /\ df_input.columns = <<totChol>>
  /\ df_input.data[1] = <<IntCell(1), IntCell(15)>>
  /\ Col(df, totChol) = <<FloatCell(38670), FloatCell(580050)>>

StageOrder ==
  << "canonicalize", "derive", "normalize", "unit", "coerce", "insert", "clamp",
     "assemble", "done" >>

StageNo(p) == CHOOSE i \in 1..Len(StageOrder) : StageOrder[i] = p

(* where a notice belongs: derivation notices, the unit notice, then the  *)
(* clamp notice of the j-th entry of RANGES                               *)
NoticeRank(w) ==
  IF w = DerivedAgeWarning \/ w = DerivedBMIWarning THEN 0
  ELSE IF w = UnitWarning THEN 1
  ELSE 1 + (CHOOSE j \in 1..Len(RANGES) : RANGES[j][1] = w.col)

(* C21: the stages of a call run in the order header mapping, derivation, *)
(* value normalization, unit conversion, type coercion, missing-column    *)
(* insertion, clamping, final selection; so the clamp stage finds every   *)
(* canonical column in the frame and clamps the values the unit stage     *)
(* left, and the warnings are the derivation notices, then the unit       *)
(* notice, then the clamp notices in RANGES order.                        *)
C21_StageOrder ==
  [][ /\ pc \in Stages /\ pc' \in Stages \cup {"done"} =>
           StageNo(pc') = StageNo(pc) + 1
      /\ pc = "clamp" =>
           /\ \A i \in 1..Len(CANONICAL_COLUMNS) : HasCol(df, CANONICAL_COLUMNS[i])
           /\ \A j \in 1..Len(RANGES) :
                LET c == RANGES[j][1]
                    s == to_numeric(Col(df, c))
                IN  \A i \in 1..Len(s) :
                      IsNum(s[i]) =>
                        Milli(Col(df', c)[i]) = Clamped(Milli(s[i]), RANGES[j][2], RANGES[j][3])
      /\ pc' = "done" =>
           /\ meta'.warnings = warnings'
           /\ \A i, k \in 1..Len(warnings') :
                i < k =>
                  /\ NoticeRank(warnings'[i]) <= NoticeRank(warnings'[k])
                  /\ NoticeRank(warnings'[k]) > 0 =>
                       NoticeRank(warnings'[i]) < NoticeRank(warnings'[k])
    ]_vars

(* totChol uploaded before the blood pressure column: the unit notice,    *)
(* then the clamp notice of sysBP, then that of totChol                   *)
C21_Witness ==
  /\ Done
  /\ df_input.columns = <<totChol, BloodPressureSpaced>>
  /\ Len(meta.warnings) = 3
  /\ meta.warnings[1] = UnitWarning
  /\ meta.warnings[2].text = "Clamped" /\ meta.warnings[2].col = sysBP
  /\ meta.warnings[3].text = "Clamped" /\ meta.warnings[3].col = totChol

(* C22: every uploaded column named id, patient_id or name is a column of *)
(* the returned table with the values it was uploaded with, row for row;  *)
(* these columns follow the 14 canonical ones in the order id,            *)
(* patient_id, name whatever their order in the upload, and none of them  *)
(* is listed in extras_dropped.                                           *)
C22_PassthroughCarried ==
  Done =>
    LET ids == << <<"i","d">>, <<"p","a","t","i","e","n","t","_","i","d">>,
                  <<"n","a","m","e">> >>
    IN  /\ SubSeq(df.columns, 15, Len(df.columns)) = Keep(ids, Range(df_input.columns))
        /\ \A k \in 1..Len(ids) :
             ids[k] \in Range(df_input.columns) =>
               /\ Col(df, ids[k]) = Col(df_input, ids[k])
               /\ Len(Col(df, ids[k])) = df.index
               /\ ids[k] \notin Range(meta.extras_dropped)

(* name uploaded before id, with a canonical column between them *)
C22_Witness ==
  /\ Done
  /\ df_input.columns = <<PASSTHROUGH_IDS[3], age, PASSTHROUGH_IDS[1]>>
  /\ SubSeq(df.columns, 15, 16) = <<PASSTHROUGH_IDS[1], PASSTHROUGH_IDS[3]>>
  /\ Col(df, PASSTHROUGH_IDS[3]) = df_input.data[1]
  /\ Col(df, PASSTHROUGH_IDS[1]) = df_input.data[3]
  /\ meta.extras_dropped = <<>>

(* C23: the returned table has as many rows as the uploaded table, in     *)
(* every column, whatever the headers are - also when none of them maps   *)
(* to a canonical column.                                                 *)
C23_RowsPreserved ==
  Done =>
    /\ df.index = df_input.index
    /\ \A j \in 1..Len(df.data) : Len(df.data[j]) = df_input.index

(* ------------------------------------------------------------------ *)
(* main.py: the single-record path                                      *)
(* ------------------------------------------------------------------ *)

startswith(s, c) == Len(s) >= 1 /\ s[1] = c

(* lines 88-96 *)
_normalize_gender(value) ==
  IF value.k = "str"
  THEN LET v == lower(strip(value.s))
       IN  IF startswith(v, "m") THEN StrCell(Male)
           ELSE IF startswith(v, "f") THEN StrCell(Female)
           ELSE value
  ELSE value

(* lines 99-104 *)
_normalize_yes_no(value) ==
  IF value.k = "str"
  THEN IF lower(strip(value.s)) = <<"y","e","s">> THEN StrCell(Yes) ELSE StrCell(No)
  ELSE value

(* lines 107-134, the categorical fields of the row; NaN stands for a    *)
(* field that is None                                                    *)
prepare_input_data(record) ==
  [c \in categorical |->
     IF record[c] = NaN THEN NaN
     ELSE IF c = gender THEN _normalize_gender(record[c])
     ELSE _normalize_yes_no(record[c])]

(* POST /api/v1/predict, up to the row handed to the classifier *)
PrepareInputData ==
  /\ req.kind = "record" /\ ~req.served
  /\ resp' = [op |-> "record", row |-> prepare_input_data(req.record)]
  /\ req' = [req EXCEPT !.served = TRUE]
  /\ UNCHANGED <<store, now, puts, pc, df_input, df, mapping_summary, extras_dropped,
                 missing_inserted, warnings, meta, returned>>

NextRecord == PrepareInputData

(* the spellings tried in one categorical field of a record *)
RecordTexts ==
  { <<"M">>, <<"M","a","l","e">>, <<" ","f","e","M","a","l","e","\t">>, <<"f">>,
    <<"m","a","n">>, <<"x">>, <<"Y","e","s">>, <<" ","y","e","s"," ">>, <<" ","Y"," ">>,
    <<"T","R","U","E">>, <<"1">>, <<"0">>, <<"N","o">>, <<"n">>, <<"f","a","l","s","e">>,
    <<"u","n","k","n","o","w","n">> }

RecordValues == { StrCell(t) : t \in RecordTexts } \cup { NaN }

(* a record whose field col holds v, the other fields their usual value *)
Record(col, v) == [c \in categorical |-> IF c = col THEN v ELSE Typical(c)]

InitRecord ==
  /\ EngineIdle
  /\ store = <<>> /\ now = 0 /\ puts = <<>> /\ resp = NoResponse
  /\ \E col \in categorical, v \in RecordValues :
       req = [kind |-> "record", served |-> FALSE, record |-> Record(col, v)]

SpecRecord == InitRecord /\ [][NextRecord]_vars

(* C24: the single-record path gives every string value of gender and of *)
(* a binary flag the token the batch path (_normalize_values) gives it.   *)
C24_PathsAgree ==
  resp.op = "record" =>
    \A c \in categorical :
      resp.row[c] = IF c = gender THEN GenderValue(req.record[c]) ELSE yn(req.record[c])

(* C25: right after a put the store holds no entry whose expiry is        *)
(* earlier than the time of the put, it holds the new entry (expiring     *)
(* 1800 s later, with the payload put), and every entry that has not      *)
(* expired is as it was; a get removes or alters no entry other than the  *)
(* one asked for, and adds none.                                          *)
C25_PutCollectsGetSpares ==
  [][ /\ \A b \in BatchIds :
           PutStep(b) =>
             /\ \A k \in DOMAIN store' : store'[k].exp >= now
             /\ b \in DOMAIN store'
             /\ store'[b] = [exp |-> now + 1800, data |-> puts'[b].data]
             /\ DOMAIN store' \subseteq DOMAIN store \cup {b}
             /\ \A k \in DOMAIN store :
                  store[k].exp >= now => k \in DOMAIN store' /\ store'[k] = store[k]
      /\ BatchExport =>
           /\ DOMAIN store' \subseteq DOMAIN store
           /\ \A k \in DOMAIN store \ {resp'.batch_id} :
                k \in DOMAIN store' /\ store'[k] = store[k]
    ]_vars

(* the second put came after the first entry had expired and left only    *)
(* its own entry in the store                                             *)
C25_Witness ==
  /\ resp.op = "predict"
  /\ resp.batch_id = 2
  /\ puts[1].at + 1800 < puts[2].at
  /\ DOMAIN store = {2}
  /\ store[2].exp = now + 1800

====
